---- MODULE Spec2Model ----
(***************************************************************************)
(* Model of red_fileops' scan pipeline                                     *)
(* (src/src/red_fileops/modules/_scan/classes.py): ScanTarget enumerates   *)
(* the direct children of a directory, Scanner.scan() timestamps the       *)
(* enumeration and keeps it as scan_results, Scanner.save_to_json() dumps  *)
(* scan_results to a JSON file.                                            *)
(*                                                                         *)
(* The filesystem is part of the state: the scan path, its direct          *)
(* children, the parent directories of the output files and the output     *)
(* files.  A call of scan() or save_to_json() is one action; what the      *)
(* filesystem does to the scan path while scan() runs is an input of the   *)
(* action (one state of the scan path per filesystem access of the call).  *)
(***************************************************************************)
EXTENDS Integers, Sequences, FiniteSets, TLC

\* ------------------------------------------------------------------ bounds
\* Number of names a direct child of the scan path can have.
MaxChildren == 2
\* Last instant of the clock pendulum.now() reads.
MaxClock == 2
\* Longest files or dirs list a ScanResults is constructed with directly.
MaxListLen == 3
\* Largest byte length of a file.
MaxSize == 2

\* ---------------------------------------------------------------- constants
\* Python's None, for the fields that hold an object or None.
None == [isNone |-> TRUE]
\* A Python list.
List(s) == [list |-> s]
\* Scanner.scan_timestamp / ScanResults.scan_timestamp when it is None.
NoTimestamp == 0

\* The path the Scanner is constructed with (example.py: EX_SCAN_PATH).
EX_SCAN_PATH == "/home/jack/mambaforge"
\* The default of save_to_json's output_file, as parent directory and file
\* name.  red_fileops.core.constants sets it; the path written here is the
\* default of to_json in the earlier draft (_scan/classes.py).  The model
\* only relies on it being one fixed path.
DEFAULT_SCAN_RESULTS_FILE == [dir |-> "scan_results", name |-> "results.json"]
\* An output file a caller passes that is not the default one.
CallerFile == [dir |-> "out", name |-> "scan.json"]

OutFiles == {DEFAULT_SCAN_RESULTS_FILE, CallerFile}
\* pathlib: Path(output_file).parent
Parent(p) == p.dir
OutDirs == {Parent(p) : p \in OutFiles}

\* pathlib.Path(s), and f"{path}".  Path("") is Path(".").
PathOf(s) == <<"Path", IF s = "" THEN "." ELSE s>>
StrOf(p) == p[2]

Names == 1..MaxChildren
\* What a name in the scan path is: nothing, a regular file, a directory, a
\* symlink to a file, a symlink to a directory, a symlink to nothing, or a
\* special entry (fifo, socket, device).
ChildKinds == {"none", "file", "dir", "linkfile", "linkdir", "dangling", "special"}
\* The scan path: missing, a readable directory, or a directory that cannot
\* be listed (os.scandir raises PermissionError).
TargetStates == {"missing", "dir", "denied"}
\* A parent directory of an output file: missing and creatable, missing and
\* not creatable (mkdir raises), present and writable, present and read-only
\* (open(..., "w") raises).
DirStates == {"missing", "blocked", "ok", "readonly"}
\* The byte lengths where no specification reads them: every entry empty.
NoSizes == [n \in Names |-> 0]
\* The content of an output file that does not exist.
NoFile == [isNone |-> TRUE, file |-> FALSE]

VARIABLES
    tstate,         \* filesystem: state of the scan path
    children,       \* filesystem: kind of each name in the scan path
    st_size,        \* filesystem: byte length of each name in the scan path
    outdirs,        \* filesystem: state of each output directory
    disk,           \* filesystem: content of each output file
    now,            \* the clock
    target,         \* Scanner.target
    scan_results,   \* Scanner.scan_results
    scan_timestamp, \* Scanner.scan_timestamp
    call            \* the call that led to this state and how it ended, or Idle

vars == <<tstate, children, st_size, outdirs, disk, now, target,
          scan_results, scan_timestamp, call>>
fsvars == <<tstate, children, st_size, outdirs, disk>>
scannervars == <<target, scan_results, scan_timestamp>>

\* -------------------------------------------------------------- ScanEntity
ScanEntity(n) == [path |-> n]

\* Mutant of DirEntryIsFile: is_file(follow_symlinks=False).
DirEntryIsFile_NoFollow(k) == k = "file"

\* os.DirEntry.is_file() / is_dir(): both follow symlinks.
DirEntryIsFile(k) == k \in {"file", "linkfile"}
DirEntryIsDir(k) == k \in {"dir", "linkdir"}

\* A Python int, str and pathlib.Path value.
PyInt(n) == [type |-> "int", value |-> n]
PyStr(s) == [type |-> "str", value |-> s]
PyPath(s) == [type |-> "Path", value |-> PathOf(s)]

\* pydantic's check of a value passed for a field declared Union[str, Path].
IsStrOrPath(v) == v # None /\ v.type \in {"str", "Path"}

\* ScanEntity(path=v): the field's type is checked, then validate_path
\* returns a str as it is and a Path as its string.
NewScanEntity(v) ==
    IF ~IsStrOrPath(v) THEN [tag |-> "raise", exc |-> "ValidationError"]
    ELSE IF v.type = "Path"
    THEN [tag |-> "ok", val |-> [path |-> PyStr(StrOf(v.value))]]
    ELSE [tag |-> "ok", val |-> [path |-> v]]

\* ScanTarget(path=v): the field's type is checked, then validate_path
\* turns a str into a Path and returns a Path as it is.
NewScanTarget(v) ==
    IF ~IsStrOrPath(v) THEN [tag |-> "raise", exc |-> "ValidationError"]
    ELSE IF v.type = "str"
    THEN [tag |-> "ok", val |-> [path |-> PyPath(v.value)]]
    ELSE [tag |-> "ok", val |-> [path |-> v]]

\* What is at the path of ScanEntity(p): p = 0 is the scan path itself, p in
\* Names its entry of that name.
KindAt(p, ts, ch) ==
    IF ts = "missing" THEN "none" ELSE IF p = 0 THEN "dir" ELSE ch[p]

\* pathlib: Path.is_file() and Path.is_dir() follow symlinks, is_symlink()
\* does not.
PathIsFile(k) == k \in {"file", "linkfile"}
PathIsDir(k) == k \in {"dir", "linkdir"}
\* Mutant of PathIsSymlink: the check of is_symlink() is lost.
PathIsSymlink_Never(k) == FALSE
PathIsSymlink(k) == k \in {"linkfile", "linkdir", "dangling"}

\* ScanEntity.entity_type
entity_type(p, ts, ch) ==
    IF PathIsFile(KindAt(p, ts, ch)) THEN PyStr("file") ELSE PyStr("dir")

\* The loop of size_in_bytes over the entries of the scan path, from entry n.
RECURSIVE DirSize(_, _, _)
DirSize(ch, sz, n) ==
    IF n > MaxChildren THEN 0
    ELSE (IF PathIsFile(ch[n]) /\ ~PathIsSymlink(ch[n]) THEN sz[n] ELSE 0)
         + DirSize(ch, sz, n + 1)

\* ScanEntity.size_in_bytes.  Only the entries of the scan path have their
\* own entries modelled: a directory inside the scan path is empty.
size_in_bytes(p, ts, ch, sz) ==
    LET k == KindAt(p, ts, ch) IN
    IF PathIsFile(k) THEN [tag |-> "ok", val |-> PyInt(sz[p])]
    ELSE IF PathIsDir(k)
    THEN IF p # 0 THEN [tag |-> "ok", val |-> PyInt(0)]
         ELSE IF ts = "denied" THEN [tag |-> "raise", exc |-> "PermissionError"]
         ELSE [tag |-> "ok", val |-> PyInt(DirSize(ch, sz, 1))]
    ELSE [tag |-> "ok", val |-> None]

\* Path(entity.path).stat() succeeds: the path (symlinks followed) exists.
StatOk(ts, ch, n) == ts # "missing" /\ ch[n] \notin {"none", "dangling"}

\* ------------------------------------------------------------- ScanResults
\* files and dirs are declared list[ScanEntity]: pydantic rejects a None that
\* is passed explicitly.  validate_scan_target stores the path as a string.
ScanResults(scan_target, files, dirs) ==
    IF files = None \/ dirs = None
    THEN [tag |-> "raise", exc |-> "ValidationError"]
    ELSE [tag |-> "ok",
          val |-> [scan_timestamp |-> NoTimestamp,
                   scan_target |-> StrOf(scan_target),
                   files |-> files,
                   dirs |-> dirs]]

count_files(r) == IF r.files = None THEN 0 ELSE Len(r.files.list)
count_dirs(r) == IF r.dirs = None THEN 0 ELSE Len(r.dirs.list)

\* f in merged_list: pydantic models are equal when their fields are, and
\* path is the only field of a ScanEntity.
Contains(merged, f) == \E i \in 1..Len(merged) : merged[i] = f

\* for f in src: if f not in merged_list: merged_list.append(f)
RECURSIVE MergeInto(_, _)
MergeInto(merged, src) ==
    IF src = <<>> THEN merged
    ELSE MergeInto(IF Contains(merged, Head(src)) THEN merged
                   ELSE Append(merged, Head(src)),
                   Tail(src))

\* Mutant of all: the files are merged before the dirs.
all_FilesFirst(r) ==
    LET files == IF r.files = None THEN List(<<>>) ELSE r.files
        dirs == IF r.dirs = None THEN List(<<>>) ELSE r.dirs
    IN [files |-> files, dirs |-> dirs,
        merged |-> MergeInto(MergeInto(<<>>, files.list), dirs.list)]

\* ScanResults.all: the files and dirs it leaves in the object (a None is
\* replaced by an empty list) and the merged list it returns.
all(r) ==
    LET files == IF r.files = None THEN List(<<>>) ELSE r.files
        dirs == IF r.dirs = None THEN List(<<>>) ELSE r.dirs
    IN [files |-> files, dirs |-> dirs,
        merged |-> MergeInto(MergeInto(<<>>, dirs.list), files.list)]

\* -------------------------------------------------------------- ScanTarget
\* ScanTarget.exists
exists(ts) == ts # "missing"

\* The entries os.scandir yields, taken in name order.
RECURSIVE ScanDir(_, _, _)
ScanDir(ch, n, kinds) ==
    IF n > MaxChildren THEN <<>>
    ELSE (IF ch[n] \in kinds THEN <<ScanEntity(n)>> ELSE <<>>)
         \o ScanDir(ch, n + 1, kinds)

\* os.scandir(self.path) raises when the path is missing or unreadable.
ScandirError(ts) ==
    IF ts = "missing" THEN "FileNotFoundError"
    ELSE IF ts = "denied" THEN "PermissionError"
    ELSE "none"

\* get_files: tsCheck is the scan path at the exists check, tsList at scandir.
get_files(tsCheck, tsList, ch) ==
    IF ~exists(tsCheck) THEN [tag |-> "ok", val |-> None]
    ELSE IF ScandirError(tsList) # "none"
         THEN [tag |-> "raise", exc |-> ScandirError(tsList)]
    ELSE [tag |-> "ok", val |-> List(ScanDir(ch, 1, {k \in ChildKinds : DirEntryIsFile(k)}))]

get_dirs(tsList, ch) ==
    IF ScandirError(tsList) # "none"
    THEN [tag |-> "raise", exc |-> ScandirError(tsList)]
    ELSE [tag |-> "ok", val |-> List(ScanDir(ch, 1, {k \in ChildKinds : DirEntryIsDir(k)}))]

\* run_scan: tl[2] is the scan path at run_scan's exists check, tl[3] and
\* tl[4] at get_files' exists check and scandir, tl[5] at get_dirs' scandir.
run_scan(path, tl, ch) ==
    IF ~exists(tl[2]) THEN [tag |-> "ok", val |-> None]
    ELSE LET f == get_files(tl[3], tl[4], ch)
             d == get_dirs(tl[5], ch)
         IN IF f.tag = "raise"
            THEN [tag |-> "raise",
                  exc |-> IF f.exc = "FileNotFoundError"
                          THEN "FileNotFoundError" ELSE "Exception"]
            ELSE IF d.tag = "raise"
            THEN [tag |-> "raise",
                  exc |-> IF d.exc = "FileNotFoundError"
                          THEN "FileNotFoundError" ELSE "Exception"]
            ELSE ScanResults(path, f.val, d.val)

\* ----------------------------------------------------------------- Scanner
\* json.dumps(self.scan_results.model_dump(), indent=2): the fields and the
\* computed fields of the ScanResults, each entity by its path.
Serialize(r) ==
    [json |-> [scan_timestamp |-> r.scan_timestamp,
               scan_target |-> r.scan_target,
               files |-> r.files.list,
               dirs |-> r.dirs.list,
               count_files |-> count_files(r),
               count_dirs |-> count_dirs(r)]]

\* model_dump() reads created_at and modified_at of every entity, which stat
\* its path: the dump raises when an entity's path is gone.
DumpOk(r, ts, ch) ==
    \A i \in 1..Len(r.files.list \o r.dirs.list) :
        StatOk(ts, ch, (r.files.list \o r.dirs.list)[i].path)

\* Mutant of set_scan_timestamp: the timestamp is taken anew at every call.
set_scan_timestamp_Always(ts, clock) == clock

\* set_scan_timestamp: the new value of self.scan_timestamp.
set_scan_timestamp(ts, clock) == IF ts = NoTimestamp THEN clock ELSE ts

\* The content of an output file that was opened for writing and not written.
EmptyFile == [json |-> None]

\* Mutant of save_to_json: results that are None are dumped as null.
save_to_json_NoStateCheck(output_file, results, ts, ch, dirs, dsk) ==
    IF output_file = None
    THEN [raised |-> "AssertionError", at |-> "argument", disk |-> dsk]
    ELSE IF results # None /\ ~DumpOk(results, ts, ch)
    THEN [raised |-> "Exception", at |-> "dump", disk |-> dsk]
    ELSE IF dirs[Parent(output_file)] # "ok"
    THEN [raised |-> "Exception", at |-> "write", disk |-> dsk]
    ELSE [raised |-> "none", at |-> "none",
          disk |-> [dsk EXCEPT ![output_file] =
                        IF results = None THEN EmptyFile ELSE Serialize(results)]]

\* Mutant of save_to_json: the file is opened for writing before the results
\* are dumped, as ScanDir.to_json of the earlier draft does.
save_to_json_OpenFirst(output_file, results, ts, ch, dirs, dsk) ==
    IF output_file = None
    THEN [raised |-> "AssertionError", at |-> "argument", disk |-> dsk]
    ELSE IF dirs[Parent(output_file)] # "ok"
    THEN [raised |-> "Exception", at |-> "write", disk |-> dsk]
    ELSE IF results = None \/ ~DumpOk(results, ts, ch)
    THEN [raised |-> "Exception", at |-> "dump",
          disk |-> [dsk EXCEPT ![output_file] = EmptyFile]]
    ELSE [raised |-> "none", at |-> "none",
          disk |-> [dsk EXCEPT ![output_file] = Serialize(results)]]

\* save_to_json(output_file): what it raises and the output files after it.
save_to_json(output_file, results, ts, ch, dirs, dsk) ==
    IF output_file = None
    THEN [raised |-> "AssertionError", at |-> "argument", disk |-> dsk]
    ELSE IF results = None \/ ~DumpOk(results, ts, ch)
    THEN [raised |-> "Exception", at |-> "dump", disk |-> dsk]
    ELSE IF dirs[Parent(output_file)] # "ok"
    THEN [raised |-> "Exception", at |-> "write", disk |-> dsk]
    ELSE [raised |-> "none", at |-> "none",
          disk |-> [dsk EXCEPT ![output_file] = Serialize(results)]]

\* The output_file scan() hands to save_to_json: it calls self.save_to_json()
\* without an argument, so the default applies.
ScanSaveFile(output_file) == DEFAULT_SCAN_RESULTS_FILE

\* Mutant of AssignResults: results already held are kept.
AssignResults_KeepFirst(old, rs) ==
    IF old # None THEN old ELSE IF rs.tag = "ok" THEN rs.val ELSE old

\* scan()'s assignment of self.scan_results from run_scan's outcome: the
\* returned value (a ScanResults or None), or no assignment when it raised.
AssignResults(old, rs) == IF rs.tag = "ok" THEN rs.val ELSE old

\* output_file.parent.mkdir(parents=True, exist_ok=True) when the parent does
\* not exist.
MkdirParents(dirs, d) ==
    IF dirs[d] = "missing" THEN [raised |-> "none", dirs |-> [dirs EXCEPT ![d] = "ok"]]
    ELSE IF dirs[d] = "blocked" THEN [raised |-> "OSError", dirs |-> dirs]
    ELSE [raised |-> "none", dirs |-> dirs]

Idle == [op |-> "idle"]

\* What a call gives back when it raises.
NoReturn == [noreturn |-> TRUE]

\* Mutant of ScanNotFound: a missing target yields an empty ScanResults that
\* is stored and returned.
ScanNotFound_EmptyResults(o) ==
    LET empty == [scan_timestamp |-> NoTimestamp, scan_target |-> EX_SCAN_PATH,
                  files |-> List(<<>>), dirs |-> List(<<>>)]
    IN [o EXCEPT !.log = {"WARNING FileNotFoundError"},
                 !.scan_results = empty, !.returned = empty]

\* scan() when self.target.exists is false: a warning is printed and None is
\* returned; o holds the Scanner as it was before the call.
ScanNotFound(o) ==
    [o EXCEPT !.log = {"WARNING FileNotFoundError"}, !.returned = None]

\* The states of the scan path a scan() call can see: tl[1] at scan()'s
\* exists check, tl[2..5] at the accesses of run_scan.
Timelines(ts) == {tl \in [1..5 -> TargetStates] : tl[1] = ts}

\* scan(save_results, output_file) against the scan path states tl: the
\* Scanner's fields, the filesystem, the log and the outcome after the call.
ScanOutcome(save_results, output_file, tl) ==
    LET tgt == [path |-> PathOf(EX_SCAN_PATH)]
        base == [target |-> tgt, scan_results |-> scan_results,
                 scan_timestamp |-> scan_timestamp, outdirs |-> outdirs,
                 disk |-> disk, existed |-> exists(tl[1]),
                 enumerated |-> FALSE, save |-> "skipped", log |-> {},
                 raised |-> "none", returned |-> NoReturn]
    IN
    IF ~exists(tl[1])
    THEN ScanNotFound(base)
    ELSE
    LET stamp == set_scan_timestamp(scan_timestamp, now)
        rs == run_scan(tgt.path, tl, children)
        res == AssignResults(scan_results, rs)
        log1 == IF rs.tag = "raise" THEN {"ERROR " \o rs.exc} ELSE {}
        b1 == [base EXCEPT !.scan_timestamp = stamp, !.log = log1,
                           !.enumerated = (rs.tag = "ok" /\ rs.val # None)]
    IN
    IF res = None
    THEN [b1 EXCEPT !.scan_results = None, !.raised = "AttributeError"]
    ELSE
    LET stamped == [res EXCEPT !.scan_timestamp = stamp]
        b2 == [b1 EXCEPT !.scan_results = stamped]
    IN
    IF ~save_results THEN [b2 EXCEPT !.returned = stamped]
    ELSE IF output_file = None THEN [b2 EXCEPT !.raised = "AssertionError"]
    ELSE
    LET mk == MkdirParents(outdirs, Parent(output_file)) IN
    IF mk.raised # "none"
    THEN [b2 EXCEPT !.raised = "Exception", !.save = "mkdir"]
    ELSE
    LET sv == save_to_json(ScanSaveFile(output_file), stamped, tl[5], children,
                           mk.dirs, disk)
    IN [b2 EXCEPT !.outdirs = mk.dirs, !.disk = sv.disk, !.save = sv.at,
                  !.log = IF sv.raised # "none"
                          THEN log1 \cup {"ERROR Exception saving"} ELSE log1,
                  !.returned = stamped]

\* --------------------------------------------------------------- the calls
Scan(save_results, output_file, tl) ==
    \E o \in {ScanOutcome(save_results, output_file, tl)} :
    /\ tstate' = tl[5]
    /\ target' = o.target
    /\ scan_results' = o.scan_results
    /\ scan_timestamp' = o.scan_timestamp
    /\ outdirs' = o.outdirs
    /\ disk' = o.disk
    /\ call' = [op |-> "scan", save_results |-> save_results,
                output_file |-> output_file, existed |-> o.existed,
                seen |-> {tl[i] : i \in 1..5},
                enumerated |-> o.enumerated, save |-> o.save, log |-> o.log,
                raised |-> o.raised, returned |-> o.returned]
    /\ UNCHANGED <<children, st_size, now>>

SaveToJson(output_file) ==
    \E sv \in {save_to_json(output_file, scan_results, tstate, children,
                            outdirs, disk)} :
    /\ disk' = sv.disk
    /\ call' = [op |-> "save_to_json", save_results |-> FALSE,
                output_file |-> output_file, existed |-> exists(tstate),
                seen |-> {tstate}, enumerated |-> FALSE, save |-> sv.at,
                log |-> IF sv.at \in {"dump", "write"}
                        THEN {"ERROR Exception saving"} ELSE {},
                raised |-> sv.raised,
                returned |-> IF sv.raised = "none" THEN None ELSE NoReturn]
    /\ UNCHANGED <<tstate, children, st_size, outdirs, now, target, scan_results,
                   scan_timestamp>>

\* --------------------------------------------------------- the environment
\* The scan path is created, removed, or has its permissions changed.
SetTarget(ts) ==
    /\ ts # tstate
    /\ tstate' = ts
    /\ call' = Idle
    /\ UNCHANGED <<children, st_size, outdirs, disk, now, scannervars>>

\* A direct child of the scan path is removed.
RemoveChild(n) ==
    /\ tstate # "missing"
    /\ children[n] # "none"
    /\ children' = [children EXCEPT ![n] = "none"]
    /\ call' = Idle
    /\ UNCHANGED <<tstate, st_size, outdirs, disk, now, scannervars>>

\* Time passes.
Tick ==
    /\ now < MaxClock
    /\ now' = now + 1
    /\ call' = Idle
    /\ UNCHANGED <<fsvars, scannervars>>

\* ------------------------------------------------------ the specifications
\* Scanner(scan_path=EX_SCAN_PATH), nothing scanned yet, no output file yet.
NewScanner ==
    /\ disk = [p \in OutFiles |-> NoFile]
    /\ now = 1
    /\ target = None
    /\ scan_results = None
    /\ scan_timestamp = NoTimestamp
    /\ call = Idle

\* Spec: the life of a Scanner that is asked to scan, without persistence,
\* a scan path that comes, goes and changes, also while scan() runs.
Init ==
    /\ NewScanner
    /\ tstate \in TargetStates
    /\ children \in [Names -> {"none", "file", "dir", "dangling"}]
    /\ st_size = NoSizes
    /\ outdirs = [d \in OutDirs |-> "missing"]

ScanCall == \E tl \in Timelines(tstate) : Scan(FALSE, None, tl)

SetTargetStep == \E ts \in TargetStates : SetTarget(ts)

RemoveChildStep == \E n \in Names : RemoveChild(n)

Next ==
    \/ ScanCall
    \/ SetTargetStep
    \/ RemoveChildStep
    \/ Tick

Spec == Init /\ [][Next]_vars

\* SpecPersist: scan() with and without persistence and save_to_json() on
\* any state of the output directories; the scan path holds still while a
\* call runs, its children can vanish between calls.
InitPersist ==
    /\ NewScanner
    /\ tstate \in {"missing", "dir"}
    /\ children \in [Names -> {"file", "dir"}]
    /\ st_size = NoSizes
    /\ outdirs \in [OutDirs -> DirStates]

ScanPersistCall ==
    \E save_results \in BOOLEAN, output_file \in OutFiles \cup {None} :
        Scan(save_results, output_file, [i \in 1..5 |-> tstate])

SaveToJsonCall == \E output_file \in OutFiles \cup {None} : SaveToJson(output_file)

TargetAppearsOrVanishes == \E ts \in {"missing", "dir"} : SetTarget(ts)

NextPersist ==
    \/ ScanPersistCall
    \/ SaveToJsonCall
    \/ TargetAppearsOrVanishes
    \/ RemoveChildStep

SpecPersist == InitPersist /\ [][NextPersist]_vars

\* SpecTarget: ScanTarget(path).run_scan() as a function of the directory,
\* on every directory of at most MaxChildren entries of any kind.
InitTarget ==
    /\ NewScanner
    /\ tstate \in TargetStates
    /\ children \in [Names -> ChildKinds]
    /\ st_size = NoSizes
    /\ outdirs = [d \in OutDirs |-> "missing"]

TargetRunScan ==
    /\ call = Idle
    /\ call' = [op |-> "run_scan",
                outcome |-> run_scan(PathOf(EX_SCAN_PATH),
                                     [i \in 1..5 |-> tstate], children)]
    /\ UNCHANGED <<fsvars, now, scannervars>>

NextTarget == TargetRunScan

SpecTarget == InitTarget /\ [][NextTarget]_vars

\* ------------------------------------------------------------------ claims
\* The entities a listing of the directory ch holds now.
FilesNow(ch) == ScanDir(ch, 1, {"file", "linkfile"})
DirsNow(ch) == ScanDir(ch, 1, {"dir", "linkdir"})

\* C1: a scan() whose target does not exist reports NotFound (prints the
\* FileNotFoundError warning and returns None, raising nothing) and leaves a
\* Scanner without results as it was: no results, no timestamp; and a scan()
\* of such a Scanner, once the target is a listable directory, returns the
\* results it has stored.
C1_MissingTargetLeavesUninitialized ==
    [][/\ (call'.op = "scan" /\ ~call'.existed /\ scan_results = None)
          => /\ call'.raised = "none"
             /\ call'.returned = None
             /\ "WARNING FileNotFoundError" \in call'.log
             /\ scan_results' = None
             /\ scan_timestamp' = scan_timestamp
       /\ (call'.op = "scan" /\ call'.seen = {"dir"} /\ scan_results = None)
          => /\ call'.raised = "none"
             /\ scan_results' # None
             /\ call'.returned = scan_results']_vars

\* C1 witness: a scan() has just found the target missing and the Scanner
\* still has no results.
C1_Witness ==
    /\ call.op = "scan"
    /\ ~call.existed
    /\ scan_results = None
    /\ target # None

\* C3: once set, the Scanner's scan_timestamp never changes, and the results
\* a scan() returns carry it, whenever the scan ran.
C3_TimestampSetOnce ==
    [][/\ scan_timestamp # NoTimestamp => scan_timestamp' = scan_timestamp
       /\ (call'.op = "scan" /\ call'.returned \notin {None, NoReturn})
          => /\ call'.returned.scan_timestamp = scan_timestamp'
             /\ scan_timestamp' # NoTimestamp]_vars

\* C3 witness: a scan() has run at an instant later than the timestamp the
\* Scanner holds, and returned results.
C3_Witness ==
    /\ call.op = "scan"
    /\ call.returned \notin {None, NoReturn}
    /\ scan_timestamp # NoTimestamp
    /\ scan_timestamp < now

\* C4: after a scan() whose enumeration succeeded, scan_results is the
\* listing of the directory as it is at that scan, its scan_target is the
\* Scanner's scan path, its scan_timestamp the Scanner's, and scan() has
\* returned it.
C4_SuccessfulScanStoresFreshResults ==
    (call.op = "scan" /\ call.enumerated)
    => /\ call.raised = "none"
       /\ scan_results # None
       /\ scan_results.files = List(FilesNow(children))
       /\ scan_results.dirs = List(DirsNow(children))
       /\ scan_results.scan_target = EX_SCAN_PATH
       /\ StrOf(target.path) = scan_results.scan_target
       /\ scan_results.scan_timestamp = scan_timestamp
       /\ call.returned = scan_results

\* C4 witness: a scan() has succeeded at an instant later than the Scanner's
\* timestamp (so an earlier scan came before it) on a directory that has
\* lost an entry and still has one.
C4_Witness ==
    /\ call.op = "scan"
    /\ call.enumerated
    /\ scan_timestamp < now
    /\ \E n \in Names : children[n] = "none"
    /\ Len(scan_results.files.list) + Len(scan_results.dirs.list) > 0

\* C2: save_to_json() on a Scanner without results raises and leaves every
\* output file as it was; with an output_file given, what it raises is the
\* Exception of the dump step.
C2_SaveWithoutResultsFails ==
    [][(call'.op = "save_to_json" /\ scan_results = None)
       => /\ call'.raised # "none"
          /\ call'.returned = NoReturn
          /\ disk' = disk
          /\ call'.output_file # None
             => (call'.raised = "Exception" /\ call'.save = "dump")]_vars

\* C2 witness: save_to_json(output_file) has just been called on a Scanner
\* whose only scan found the target missing, with the output directory there.
C2_Witness ==
    /\ call.op = "save_to_json"
    /\ call.output_file # None
    /\ outdirs[Parent(call.output_file)] = "ok"
    /\ scan_results = None
    /\ target # None

\* C5 (as claimed): after scan(save_results=True, output_file=P) on a
\* listable directory, with P's parent directory there or creatable, P's
\* parent directory exists and P holds the dump of the new results.
C5_PersistWritesToOutputFile ==
    (/\ call.op = "scan"
     /\ call.save_results
     /\ call.output_file # None
     /\ call.enumerated
     /\ outdirs[Parent(call.output_file)] \in {"missing", "ok"})
    => /\ outdirs[Parent(call.output_file)] = "ok"
       /\ disk[call.output_file] = Serialize(scan_results)

\* C6 (as claimed): a call whose persistence step failed at mkdir or at the
\* write has raised.
C6_PersistenceFailureIsRaised ==
    (call.op \in {"scan", "save_to_json"} /\ call.save \in {"mkdir", "write"})
    => /\ call.raised # "none"
       /\ call.returned = NoReturn

\* C7 (as claimed): a scan() that passed the existence check and whose
\* enumeration did not produce a ScanResults raises, and returns nothing.
C7_FailedEnumerationReturnsNothing ==
    (call.op = "scan" /\ call.existed /\ ~call.enumerated)
    => /\ call.raised # "none"
       /\ call.returned = NoReturn

\* C9 (as claimed): after save_to_json(output_file) on a Scanner with
\* results that can be dumped, with output_file's parent directory there or
\* creatable, the parent directory exists and output_file holds the dump.
C9_SaveCreatesParentDirectories ==
    (/\ call.op = "save_to_json"
     /\ call.output_file # None
     /\ scan_results # None
     /\ call.save # "dump"
     /\ outdirs[Parent(call.output_file)] \in {"missing", "ok"})
    => /\ outdirs[Parent(call.output_file)] = "ok"
       /\ disk[call.output_file] = Serialize(scan_results)

\* C10: when the dump of the results fails in save_to_json() because the
\* path of one of their entities is gone, the call raises and every output
\* file is as it was before the call.
C10_FailedDumpWritesNothing ==
    [][(/\ call'.op = "save_to_json"
        /\ call'.output_file # None
        /\ scan_results # None
        /\ ~DumpOk(scan_results, tstate, children))
       => /\ call'.raised = "Exception"
          /\ call'.save = "dump"
          /\ disk' = disk]_vars

\* C10 witness: save_to_json(P) has failed at the dump while P's directory
\* is writable and P holds an earlier dump.
C10_Witness ==
    /\ call.op = "save_to_json"
    /\ call.save = "dump"
    /\ scan_results # None
    /\ outdirs[Parent(call.output_file)] = "ok"
    /\ disk[call.output_file] # NoFile

\* The direct children of the scan path, and those that are, symlinks
\* followed, a regular file or a directory.
Children == {n \in Names : children[n] # "none"}
FilesAndDirs == {n \in Names : children[n] \in {"file", "dir", "linkfile", "linkdir"}}

C15_ResultsStayPopulated ==
    [][scan_results # None => scan_results' # None]_vars

\* ---------------------------------------------------------- ScanResults.all
\* SpecResults: ScanResults.all as a function of the files and dirs the
\* ScanResults was constructed with: every pair of lists of at most
\* MaxListLen entities, repeated entities included, and the None default.
EntityLists ==
    UNION {[1..k -> {ScanEntity(n) : n \in Names}] : k \in 0..MaxListLen}

\* ScanResults(scan_target=EX_SCAN_PATH, files=..., dirs=...), or with files
\* or dirs left at their default.
InitResults ==
    /\ tstate = "dir"
    /\ children = [n \in Names |-> "none"]
    /\ st_size = NoSizes
    /\ outdirs = [d \in OutDirs |-> "missing"]
    /\ disk = [p \in OutFiles |-> NoFile]
    /\ now = 1
    /\ target = None
    /\ scan_timestamp = NoTimestamp
    /\ scan_results \in
         {[scan_timestamp |-> NoTimestamp, scan_target |-> EX_SCAN_PATH,
           files |-> f, dirs |-> d] :
             f \in {None} \cup {List(l) : l \in EntityLists},
             d \in {None} \cup {List(l) : l \in EntityLists}}
    /\ call = Idle

\* results.all is read.
ResultsAll ==
    /\ call = Idle
    /\ \E a \in {all(scan_results)} :
         /\ scan_results' = [scan_results EXCEPT !.files = a.files,
                                                 !.dirs = a.dirs]
         /\ call' = [op |-> "all", returned |-> a.merged]
    /\ UNCHANGED <<fsvars, now, target, scan_timestamp>>

NextResults == ResultsAll

SpecResults == InitResults /\ [][NextResults]_vars

\* The position at which e first occurs in s.
FirstIndex(s, e) ==
    CHOOSE i \in 1..Len(s) : s[i] = e /\ \A k \in 1..(i - 1) : s[k] # e

\* C11: all is free of repetitions, holds exactly the entities of dirs and
\* files, and orders them by their first occurrence in dirs followed by
\* files.
C11_AllIsDirsThenFilesWithoutRepeats ==
    call.op = "all"
    => LET m == call.returned
           src == scan_results.dirs.list \o scan_results.files.list
       IN /\ \A i, j \in 1..Len(m) : i # j => m[i] # m[j]
          /\ {m[i] : i \in 1..Len(m)} = {src[i] : i \in 1..Len(src)}
          /\ \A i, j \in 1..Len(m) :
                i < j => FirstIndex(src, m[i]) < FirstIndex(src, m[j])

\* C11 witness: all has been read of results in which files repeats an entity
\* of dirs after an entity of its own, and dirs repeats one of its own.
C11_Witness ==
    /\ call.op = "all"
    /\ Len(call.returned) = 2
    /\ Len(scan_results.dirs.list) = 2
    /\ scan_results.dirs.list[1] = scan_results.dirs.list[2]
    /\ Len(scan_results.files.list) >= 2
    /\ scan_results.files.list[1] # scan_results.dirs.list[1]
    /\ scan_results.files.list[2] = scan_results.dirs.list[1]

\* --------------------------------------------------------------- ScanEntity
\* SpecEntity: the constructors of ScanEntity and ScanTarget as functions of
\* the value passed for path, and the derived fields of a ScanEntity as
\* functions of the filesystem, for the entity of the scan path and of each
\* of its entries.
PathArguments == {None, PyInt(0), PyStr(""), PyStr(EX_SCAN_PATH),
                  PyPath(""), PyPath(EX_SCAN_PATH)}

InitEntity ==
    /\ NewScanner
    /\ tstate \in TargetStates
    /\ children \in [Names -> ChildKinds]
    /\ st_size \in [Names -> 0..MaxSize]
    /\ \A n \in Names : children[n] \notin {"file", "linkfile"} => st_size[n] = 0
    /\ outdirs = [d \in OutDirs |-> "missing"]

ConstructScanEntity ==
    /\ \E v \in PathArguments :
         call' = [op |-> "ScanEntity", arg |-> v, outcome |-> NewScanEntity(v)]
    /\ UNCHANGED <<fsvars, now, scannervars>>

ConstructScanTarget ==
    /\ \E v \in PathArguments :
         call' = [op |-> "ScanTarget", arg |-> v, outcome |-> NewScanTarget(v)]
    /\ UNCHANGED <<fsvars, now, scannervars>>

ReadEntityType ==
    /\ \E p \in 0..MaxChildren :
         call' = [op |-> "entity_type", path |-> p,
                  outcome |-> [tag |-> "ok",
                               val |-> entity_type(p, tstate, children)]]
    /\ UNCHANGED <<fsvars, now, scannervars>>

ReadSizeInBytes ==
    /\ \E p \in 0..MaxChildren :
         call' = [op |-> "size_in_bytes", path |-> p,
                  outcome |-> size_in_bytes(p, tstate, children, st_size)]
    /\ UNCHANGED <<fsvars, now, scannervars>>

NextEntity ==
    \/ ConstructScanEntity
    \/ ConstructScanTarget
    \/ ReadEntityType
    \/ ReadSizeInBytes

SpecEntity == InitEntity /\ [][NextEntity]_vars

\* The sum of the byte lengths of the entries in S.
RECURSIVE TotalSize(_)
TotalSize(S) ==
    IF S = {} THEN 0
    ELSE LET n == CHOOSE x \in S : TRUE IN st_size[n] + TotalSize(S \ {n})

C13_EntityTypeOfMissingPathRaises ==
    (call.op = "entity_type" /\ KindAt(call.path, tstate, children) = "none")
    => call.outcome.tag = "raise"

\* C14 (as claimed): ScanTarget(path="") and ScanEntity(path="") raise.
C14_EmptyPathIsRejected ==
    (call.op \in {"ScanTarget", "ScanEntity"} /\ call.arg = PyStr(""))
    => call.outcome.tag = "raise"

====
